---- MODULE Spec2Model ----
(***************************************************************************)
(* Model of ClientServerApp: the telemetry device (class Client) and the   *)
(* collector (class TcpServer), both event-driven Qt objects.  One action  *)
(* of the model is one dispatch of the owning event loop: a slot, with     *)
(* every slot the socket calls back synchronously while it runs.           *)
(***************************************************************************)
EXTENDS Integers, Sequences, FiniteSets, TLC

VARIABLES
    client,     \* the Client object: its fields, its two timers, its socket
    rx,         \* bytes in flight towards the device's socket
    asked,      \* observation: last call of the device's public API
    server,     \* the TcpServer object: its fields and the sockets it owns
    tx,         \* bytes in flight towards the collector's socket (framing runs)
    sent,       \* observation: the frames the two peers were sent (framing runs)
    thr,        \* the two execution contexts that share thresholds_mutex_
    link        \* the TCP connection between the device and the collector

vars == <<client, rx, asked, server, tx, sent, thr, link>>

(***************************************************************************)
(* Bounds of the exploration.                                              *)
(***************************************************************************)
MaxInFlight == 8        \* bytes sent to the device and not yet framed by it
MaxSends == 1           \* telemetry messages the device emits in one run
MaxAccepts == 2         \* connections the collector accepts in one run
MaxCommands == 2        \* commands the collector writes to one connection
MaxPending == 2         \* symbols a collector receive buffer holds after a read
MaxFrames == 2          \* frames a peer is sent in a framing run

(***************************************************************************)
(* The wire.  A byte stream is a sequence of symbols; a compact JSON       *)
(* object is the three symbols "{" members "}", so that a read can end     *)
(* inside a JSON body, and the delimiter is one symbol of its own.         *)
(***************************************************************************)
kMessageDelimiter == [c |-> "\n"]
LBrace == [c |-> "{"]
RBrace == [c |-> "}"]
Members(o) == [c |-> "kv", o |-> o]
ArrayDoc == [c |-> "[]"]
Junk == [c |-> "x"]

\* QJsonDocument(message).toJson(QJsonDocument::Compact)
toJson(o) == <<LBrace, Members(o), RBrace>>

\* QJsonDocument::fromJson(data, &parse_error)
fromJson(data) ==
    IF Len(data) = 3 /\ data[1] = LBrace /\ data[2].c = "kv" /\ data[3] = RBrace
    THEN [error |-> FALSE, isObject |-> TRUE, obj |-> data[2].o]
    ELSE IF data = <<ArrayDoc>>
    THEN [error |-> FALSE, isObject |-> FALSE, obj |-> <<>>]
    ELSE [error |-> TRUE, isObject |-> FALSE, obj |-> <<>>]

\* obj[key].toString() / obj[key].toInt(): a missing key reads as "" / 0
toString(o, key) == IF key \in DOMAIN o THEN o[key] ELSE ""
\* a number with a fractional part is held as its whole part, its key listed
\* in the member halves of the object: the number is then the whole part and
\* one half
IsWhole(o, key) == "halves" \notin DOMAIN o \/ key \notin o.halves
\* QJsonValue::toInt: the default 0 unless the value is a whole number
toInt(o, key) == IF key \in DOMAIN o /\ IsWhole(o, key) THEN o[key] ELSE 0
\* QJsonValue::toDouble, counted in halves
toDouble(o, key) ==
    IF key \notin DOMAIN o THEN 0
    ELSE 2 * o[key] + (IF IsWhole(o, key) THEN 0 ELSE 1)

\* QByteArray::contains / indexOf / left / remove(0, n)
contains(buf, ch) == \E i \in 1..Len(buf) : buf[i] = ch
indexOf(buf, ch) == CHOOSE i \in 1..Len(buf) :
                        buf[i] = ch /\ \A j \in 1..(i - 1) : buf[j] # ch
left(buf, n) == SubSeq(buf, 1, n)
removeFront(buf, n) == SubSeq(buf, n + 1, Len(buf))

(***************************************************************************)
(* Messages of the protocol.                                               *)
(***************************************************************************)
ConnectionConfirm(id) ==
    [type |-> "ConnectionConfirm", client_id |-> id, status |-> "connected"]
Command(cmd) == [type |-> "Command", command |-> cmd]

encode(o) == toJson(o) \o <<kMessageDelimiter>>

(***************************************************************************)
(* The device: class Client.                                               *)
(***************************************************************************)
ClientState == {"Disconnected", "Connecting", "WaitingConfirmation",
                "WaitingStart", "Running", "Stopped"}
SocketState == {"Unconnected", "Connecting", "Connected", "Closing"}
Hosts == {"a", "b"}

\* Client::Client
ClientInit ==
    [state_ |-> "Disconnected",
     client_id_ |-> -1,
     host_ |-> "a",
     message_counter_ |-> 0,
     uptime_ |-> 0,
     receive_buffer_ |-> <<>>,
     reconnect_timer_ |-> 0,        \* pending expiries of reconnect_timer_
     send_timer_ |-> 0,             \* pending expiries of send_timer_
     sock |-> "Unconnected",        \* socket_->state()
     peer |-> "a",                  \* the host socket_ was last told to reach
     pendingClose |-> FALSE,        \* disconnectFromHost() asked while connecting
     wbuf |-> <<>>,                 \* bytes written to socket_, not yet flushed
     emitted |-> <<>>,              \* observation: types of the telemetry written
     calls |-> <<"Client">>,        \* observation: last dispatch, the slots it ran
     hp |-> 0,                      \* observation: progress along the happy path
     hpId |-> -1]                   \* observation: ID carried by the last confirm

\* a start() that queues one more expiry instead of restarting the timer
TimerStart_queued(t) == t + 1

\* QTimer::start(msec) on a single-shot timer: restarts it
TimerStart(t) == 1
\* QTimer::stop()
TimerStop(t) == 0

Called(c, name) == [c EXCEPT !.calls = Append(@, name)]

\* Client::setState
setState(c, s) == IF c.state_ # s THEN [c EXCEPT !.state_ = s] ELSE c

\* scheduleNextSend that never arms the send timer
scheduleNextSend_idle(c) == c

\* Client::scheduleNextSend
scheduleNextSend(c) ==
    IF c.state_ # "Running" THEN c
    ELSE [c EXCEPT !.send_timer_ = TimerStart(@)]

\* onDisconnected that also moves the device to Disconnected
onDisconnected_reset(c) ==
    LET c1 == [c EXCEPT !.send_timer_ = TimerStop(@), !.client_id_ = -1,
                        !.state_ = "Disconnected"]
    IN  IF c.state_ # "Disconnected"
        THEN Called([c1 EXCEPT !.reconnect_timer_ = TimerStart(@)],
                    "onDisconnected:live")
        ELSE Called(c1, "onDisconnected:idle")

\* Client::onDisconnected
onDisconnected(c) ==
    LET c1 == [c EXCEPT !.send_timer_ = TimerStop(@), !.client_id_ = -1]
    IN  IF c.state_ # "Disconnected"
        THEN Called([c1 EXCEPT !.reconnect_timer_ = TimerStart(@)],
                    "onDisconnected:live")
        ELSE Called(c1, "onDisconnected:idle")

\* onSocketError that only logs
onSocketError_logonly(c) == Called(c, "onSocketError")

\* Client::onSocketError
onSocketError(c) ==
    IF c.state_ = "Connecting"
    THEN Called([c EXCEPT !.reconnect_timer_ = TimerStart(@)], "onSocketError")
    ELSE Called(c, "onSocketError")

\* onConnected that forgets setState
onConnected_nostate(c) ==
    Called([c EXCEPT !.hp = IF c.hp = 1 THEN 2 ELSE 0], "onConnected")

\* Client::onConnected
onConnected(c) ==
    Called([setState(c, "WaitingConfirmation") EXCEPT
                !.hp = IF c.hp = 1 THEN 2 ELSE 0], "onConnected")

\* QAbstractSocket::abort(): closes at once, drops unwritten data, and emits
\* disconnected() before it returns when the socket was connected or closing
abort(c) ==
    IF c.sock = "Unconnected" THEN c
    ELSE LET c1 == [c EXCEPT !.sock = "Unconnected", !.wbuf = <<>>]
         IN  IF c.sock \in {"Connected", "Closing"} THEN onDisconnected(c1)
             ELSE c1

\* QAbstractSocket::disconnectFromHost(): while connecting the close is
\* deferred until the connection is established; with unwritten data the
\* socket enters ClosingState; otherwise it closes and emits disconnected()
\* before it returns
disconnectFromHost(c) ==
    CASE c.sock = "Unconnected" -> c
      [] c.sock = "Connecting" -> [c EXCEPT !.pendingClose = TRUE]
      [] c.wbuf # <<>> -> [c EXCEPT !.sock = "Closing"]
      [] OTHER -> onDisconnected([c EXCEPT !.sock = "Unconnected"])

\* QAbstractSocket::connectToHost(host, port)
connectToHost(c, h) ==
    [c EXCEPT !.sock = "Connecting", !.peer = h, !.pendingClose = FALSE,
              !.wbuf = <<>>]

\* Client::connectToServer
connectToServer(c, h) ==
    LET c1 == [c EXCEPT !.host_ = h]
        c2 == IF c1.sock # "Unconnected" THEN abort(c1) ELSE c1
        c3 == setState(c2, "Connecting")
    IN  Called(connectToHost(c3, c3.host_), "connectToServer")

\* Client::disconnect
disconnect(c) ==
    LET c1 == [c EXCEPT !.reconnect_timer_ = TimerStop(@),
                        !.send_timer_ = TimerStop(@)]
        c2 == IF c1.sock # "Unconnected" THEN disconnectFromHost(c1) ELSE c1
    IN  Called(setState(c2, "Disconnected"), "disconnect")

\* Client::onReconnectTimer
onReconnectTimer(c) ==
    IF c.state_ # "Disconnected"
    THEN connectToServer(Called(c, "onReconnectTimer"), c.host_)
    ELSE Called(c, "onReconnectTimer")

\* Client::sendMessage
sendMessage(c, message) ==
    IF c.sock # "Connected" THEN c
    ELSE [c EXCEPT !.wbuf = @ \o encode(message),
                   !.emitted = Append(@, message.type)]

\* QRandomGenerator draws of Client::generateNetworkMetrics (net),
\* generateDeviceStatus (dev: uptime increment, cpu, memory) and
\* generateLogMessage (log): values inside and outside the collector's
\* default limits
\* one dispatch draws for one message only, so the draws are paired up
Draws == {[net |-> [bandwidth |-> 100, latency |-> 50, packet_loss |-> 1],
           dev |-> [inc |-> 1, cpu_usage |-> 10, memory_usage |-> 20],
           log |-> [message |-> "Routing table updated", severity |-> "INFO"]],
          [net |-> [bandwidth |-> 100, latency |-> 150, packet_loss |-> 7],
           dev |-> [inc |-> 59, cpu_usage |-> 99, memory_usage |-> 94],
           log |-> [message |-> "ARP cache flushed - x9", severity |-> "ERROR"]]}

\* Client::generateNetworkMetrics
generateNetworkMetrics(d) ==
    [type |-> "NetworkMetrics", bandwidth |-> d.bandwidth,
     latency |-> d.latency, packet_loss |-> d.packet_loss]

\* Client::generateDeviceStatus (the uptime_ it reports is already advanced)
generateDeviceStatus(uptime, d) ==
    [type |-> "DeviceStatus", uptime |-> uptime,
     cpu_usage |-> d.cpu_usage, memory_usage |-> d.memory_usage]

\* Client::generateLogMessage
generateLogMessage(d) ==
    [type |-> "Log", message |-> d.message, severity |-> d.severity]

\* onSendDataTimer that advances message_counter_ before it picks the type
onSendDataTimer_late(c, d) ==
    IF c.state_ # "Running" THEN Called(c, "onSendDataTimer:idle")
    ELSE LET data_type == (c.message_counter_ + 1) % 3
             c1 == [c EXCEPT !.message_counter_ = @ + 1,
                             !.uptime_ = IF data_type = 1 THEN @ + d.dev.inc
                                         ELSE @]
             data == CASE data_type = 0 -> generateNetworkMetrics(d.net)
                       [] data_type = 1 -> generateDeviceStatus(c1.uptime_, d.dev)
                       [] OTHER -> generateLogMessage(d.log)
         IN  Called(scheduleNextSend(sendMessage(c1, data)), "onSendDataTimer")

\* Client::onSendDataTimer
onSendDataTimer(c, d) ==
    IF c.state_ # "Running" THEN Called(c, "onSendDataTimer:idle")
    ELSE LET data_type == c.message_counter_ % 3
             c1 == [c EXCEPT !.message_counter_ = @ + 1,
                             !.uptime_ = IF data_type = 1 THEN @ + d.dev.inc
                                         ELSE @]
             data == CASE data_type = 0 -> generateNetworkMetrics(d.net)
                       [] data_type = 1 -> generateDeviceStatus(c1.uptime_, d.dev)
                       [] OTHER -> generateLogMessage(d.log)
         IN  Called(scheduleNextSend(sendMessage(c1, data)), "onSendDataTimer")

\* Client::processServerMessage
processServerMessage(c, data) ==
    LET doc == fromJson(data)
        obj == doc.obj
        type == toString(obj, "type")
        command == toString(obj, "command")
    IN  IF doc.error
        THEN Called([c EXCEPT !.hp = 0], "log:JSON parse error")
        ELSE IF type = "ConnectionConfirm"
        THEN Called([setState([c EXCEPT !.client_id_ = toInt(obj, "client_id")],
                              "WaitingStart")
                        EXCEPT !.hp = IF c.hp = 2 THEN 3 ELSE 0,
                               !.hpId = toInt(obj, "client_id")],
                    "log:Connection confirmed")
        ELSE IF type = "Command"
        THEN IF command = "start"
             THEN Called([scheduleNextSend(setState(c, "Running"))
                             EXCEPT !.hp = IF c.hp = 3 THEN 4 ELSE 0],
                         "log:Received START command")
             ELSE IF command = "stop"
             THEN Called([setState([c EXCEPT !.send_timer_ = TimerStop(@)],
                                   "Stopped")
                             EXCEPT !.hp = IF c.hp = 4 THEN 5 ELSE 0],
                         "log:Received STOP command")
             ELSE Called([c EXCEPT !.hp = 0], "command:ignored")
        ELSE Called([c EXCEPT !.hp = 0], "log:Unknown message type")

\* the while loop of Client::onReadyRead
RECURSIVE DrainClient(_)
DrainClient(c) ==
    IF ~contains(c.receive_buffer_, kMessageDelimiter) THEN c
    ELSE LET delimiter_pos == indexOf(c.receive_buffer_, kMessageDelimiter) - 1
             message == left(c.receive_buffer_, delimiter_pos)
             c1 == [c EXCEPT !.receive_buffer_ = removeFront(@, delimiter_pos + 1)]
         IN  DrainClient(IF message # <<>> THEN processServerMessage(c1, message)
                         ELSE c1)

\* Client::onReadyRead, socket_->readAll() returning bytes
onReadyRead(c, bytes) ==
    DrainClient(Called([c EXCEPT !.receive_buffer_ = @ \o bytes], "onReadyRead"))

(***************************************************************************)
(* The device's event loop: one action per dispatch.                       *)
(***************************************************************************)
\* a dispatch starts a new record of the slots run, headed by the event
Fresh(c, event) == [c EXCEPT !.calls = <<event>>]

\* bytes still in flight after a dispatch: closing the socket drops them
InFlight(c, bytes) == IF c.sock \in {"Connected", "Closing"} THEN bytes ELSE <<>>

\* what the device's peer writes in one go: the frames of the protocol
PeerChunks ==
    {encode(ConnectionConfirm(1)), encode(Command("start")),
     encode(Command("stop"))}

\* the application calls Client::connectToServer(host, port)
UserConnect(h) ==
    /\ client' = [connectToServer(Fresh(client, "UserConnect"), h) EXCEPT
                     !.hp = IF client.state_ = "Disconnected" THEN 1 ELSE 0]
    /\ rx' = InFlight(client', rx)
    /\ asked' = "connect"
    /\ UNCHANGED <<server, tx, sent, thr, link>>

\* the application calls Client::disconnect()
UserDisconnect ==
    /\ client' = [disconnect(Fresh(client, "UserDisconnect")) EXCEPT !.hp = 0]
    /\ rx' = InFlight(client', rx)
    /\ asked' = "disconnect"
    /\ UNCHANGED <<server, tx, sent, thr, link>>

\* the transport connects: socket_ emits connected(), and then carries out a
\* close that was asked for while it was connecting
TransportConnected ==
    /\ client.sock = "Connecting"
    /\ LET c1 == onConnected([Fresh(client, "TransportConnected") EXCEPT !.sock = "Connected"])
       IN  client' = IF client.pendingClose
                     THEN disconnectFromHost([c1 EXCEPT !.pendingClose = FALSE])
                     ELSE c1
    /\ rx' = <<>>
    /\ UNCHANGED asked
    /\ UNCHANGED <<server, tx, sent, thr, link>>

\* the connection attempt fails: socket_ emits errorOccurred()
TransportError ==
    /\ client.sock = "Connecting"
    /\ client' = [onSocketError([Fresh(client, "TransportError") EXCEPT !.sock = "Unconnected",
                                                      !.pendingClose = FALSE])
                     EXCEPT !.hp = 0]
    /\ rx' = <<>>
    /\ UNCHANGED asked
    /\ UNCHANGED <<server, tx, sent, thr, link>>

\* the peer closes or the transport is lost: socket_ emits errorOccurred()
\* and then disconnected()
RemoteClosed ==
    /\ client.sock \in {"Connected", "Closing"}
    /\ client' = [onDisconnected(onSocketError(
                      [Fresh(client, "RemoteClosed") EXCEPT !.sock = "Unconnected", !.wbuf = <<>>]))
                     EXCEPT !.hp = 0]
    /\ rx' = <<>>
    /\ UNCHANGED asked
    /\ UNCHANGED <<server, tx, sent, thr, link>>

\* the peer writes a chunk to the connection
PeerWrite(chunk) ==
    /\ client.sock \in {"Connected", "Closing"}
    /\ Len(client.receive_buffer_) + Len(rx) + Len(chunk) <= MaxInFlight
    /\ rx' = rx \o chunk
    /\ UNCHANGED <<client, asked>>
    /\ UNCHANGED <<server, tx, sent, thr, link>>

\* socket_ emits readyRead() with the first n bytes in flight
SocketReadyRead(n) ==
    /\ client.sock = "Connected"
    /\ n \in 1..Len(rx)
    /\ client' = onReadyRead(Fresh(client, "SocketReadyRead"), left(rx, n))
    /\ rx' = removeFront(rx, n)
    /\ UNCHANGED asked
    /\ UNCHANGED <<server, tx, sent, thr, link>>

\* the event loop flushes socket_'s write buffer; a socket that was closing
\* then closes and emits disconnected()
SocketFlush ==
    /\ client.wbuf # <<>>
    /\ client.sock \in {"Connected", "Closing"}
    /\ LET c1 == [Fresh(client, "SocketFlush") EXCEPT !.wbuf = <<>>]
       IN  client' = IF client.sock = "Closing"
                     THEN onDisconnected([c1 EXCEPT !.sock = "Unconnected"])
                     ELSE c1
    /\ rx' = InFlight(client', rx)
    /\ UNCHANGED asked
    /\ UNCHANGED <<server, tx, sent, thr, link>>

\* reconnect_timer_ expires
ReconnectTimeout ==
    /\ client.reconnect_timer_ > 0
    /\ client' = [onReconnectTimer([Fresh(client, "ReconnectTimeout") EXCEPT !.reconnect_timer_ = @ - 1])
                     EXCEPT !.hp = 0]
    /\ rx' = InFlight(client', rx)
    /\ UNCHANGED asked
    /\ UNCHANGED <<server, tx, sent, thr, link>>

\* send_timer_ expires
SendTimeout(d) ==
    /\ client.send_timer_ > 0
    /\ client.message_counter_ < MaxSends
    /\ client' = onSendDataTimer([Fresh(client, "SendTimeout") EXCEPT !.send_timer_ = @ - 1], d)
    /\ UNCHANGED <<rx, asked>>
    /\ UNCHANGED <<server, tx, sent, thr, link>>

DeviceNext ==
    \/ \E h \in Hosts : UserConnect(h)
    \/ UserDisconnect
    \/ TransportConnected
    \/ TransportError
    \/ RemoteClosed
    \/ \E chunk \in PeerChunks : PeerWrite(chunk)
    \/ \E n \in 1..Len(rx) : SocketReadyRead(n)
    \/ SocketFlush
    \/ ReconnectTimeout
    \/ \E d \in Draws : SendTimeout(d)

(***************************************************************************)
(* The collector: class TcpServer, with the QTcpSocket objects it owns.    *)
(***************************************************************************)
\* addresses a QTcpSocket object can have (a freed one may be handed out again)
Socks == {1, 2}
kMaxBufferSize == 1024 * 1024

\* n bytes that hold no delimiter, as one symbol
Blob(n) == [c |-> "x", n |-> n]
\* QByteArray::size()
RECURSIVE size(_)
size(buf) ==
    IF buf = <<>> THEN 0
    ELSE (IF "n" \in DOMAIN Head(buf) THEN Head(buf).n ELSE 1) + size(Tail(buf))

\* QMap: insert or replace, remove, keys in ascending order
MapPut(m, k, v) == [x \in DOMAIN m \cup {k} |-> IF x = k THEN v ELSE m[x]]
MapRemove(m, k) == [x \in DOMAIN m \ {k} |-> m[x]]
EmptyMap == [x \in {} |-> 0]
RECURSIVE Ascending(_)
Ascending(S) ==
    IF S = {} THEN <<>>
    ELSE LET k == CHOOSE x \in S : \A y \in S : x <= y
         IN  <<k>> \o Ascending(S \ {k})

\* struct ThresholdConfig, with its default member initializers
DefaultThresholds ==
    [max_latency |-> 100, max_packet_loss |-> 5,
     max_cpu_usage |-> 90, max_memory_usage |-> 90]

\* struct ClientInfo as QMap::operator[] creates it: value-initialized
DefaultClientInfo == [id |-> 0, is_connected |-> FALSE, is_running |-> FALSE]

NoPair == [phase |-> "none", id |-> 0, sock |-> 0, base |-> <<>>]

\* TcpServer::TcpServer
ServerInit ==
    [listening |-> FALSE,               \* server_->isListening()
     clients_ |-> EmptyMap,
     client_sockets_ |-> EmptyMap,
     receive_buffers_ |-> EmptyMap,
     next_client_id_ |-> 1,
     thresholds_ |-> DefaultThresholds,
     socks |-> [s \in Socks |-> [state |-> "Free", out |-> <<>>]],
     crashed |-> FALSE,                 \* the process has ended abnormally
     issued |-> <<>>,                   \* observation: IDs in accept order
     pair |-> NoPair,                   \* observation: start(id) then stop(id)
     window |-> EmptyMap,               \* ServerWindow::clients_ once the
                                        \* queued signals are delivered
     closed |-> {},                     \* observation: IDs of the
                                        \* clientDisconnected emitted
     twice |-> FALSE,                   \* observation: a clientDisconnected
                                        \* for an ID closed or never connected
     calls |-> <<[e |-> "TcpServer", id |-> 0, x |-> ""]>>]
                                        \* observation: last dispatch, what it
                                        \* emitted and wrote

\* ServerWindow::onClientConnected; w is the window's clients_
ServerWindow_onClientConnected(w, info) == MapPut(w, info.id, info)

\* ServerWindow::onClientDisconnected
ServerWindow_onClientDisconnected(w, client_id) == MapRemove(w, client_id)

\* ServerWindow::onClientStatusChanged
ServerWindow_onClientStatusChanged(w, client_id, is_running) ==
    IF client_id \in DOMAIN w
    THEN [w EXCEPT ![client_id].is_running = is_running]
    ELSE w

\* ServerWindow::onServerStopped
ServerWindow_onServerStopped(w) == EmptyMap

\* emit of a signal of TcpServer.  The window's slots are queued
\* connections, run in the order of the emits; clientConnected carries the
\* record just stored in clients_.
Emit(sv, e, id, x) ==
    LET sv1 == [sv EXCEPT !.calls = Append(@, [e |-> e, id |-> id, x |-> x])]
    IN  CASE e = "clientConnected" ->
               [sv1 EXCEPT !.window = ServerWindow_onClientConnected(
                               @, sv.clients_[sv.client_sockets_[id]])]
          [] e = "clientDisconnected" ->
               [sv1 EXCEPT !.window = ServerWindow_onClientDisconnected(@, id),
                           !.closed = @ \cup {id},
                           !.twice = @ \/ id \in sv.closed
                                       \/ \A i \in 1..Len(sv.issued) :
                                              sv.issued[i] # id]
          [] e = "clientStatusChanged" ->
               [sv1 EXCEPT !.window = ServerWindow_onClientStatusChanged(
                               @, id, x = "true")]
          [] e = "serverStopped" ->
               [sv1 EXCEPT !.window = ServerWindow_onServerStopped(@)]
          [] OTHER -> sv1
logMessage(sv, text) == Emit(sv, "logMessage", 0, text)

\* sendToClient with the state test inverted
sendToClient_inverted(sv, socket, message) ==
    IF sv.socks[socket].state = "Connected" THEN sv
    ELSE Emit([sv EXCEPT !.socks[socket].out = @ \o encode(message)],
              "write", socket, message.type)

\* TcpServer::sendToClient
sendToClient(sv, socket, message) ==
    IF sv.socks[socket].state # "Connected" THEN sv
    ELSE Emit([sv EXCEPT !.socks[socket].out = @ \o encode(message)],
              "write", socket, message.type)

\* generateClientId that hands out the lowest ID not in use
generateClientId_reuse(sv) ==
    [id |-> CHOOSE i \in 1..(Cardinality(DOMAIN sv.client_sockets_) + 1) :
                /\ i \notin DOMAIN sv.client_sockets_
                /\ \A j \in 1..(i - 1) : j \in DOMAIN sv.client_sockets_,
     sv |-> sv]

\* TcpServer::generateClientId: the ID returned, the server afterwards
generateClientId(sv) ==
    [id |-> sv.next_client_id_,
     sv |-> [sv EXCEPT !.next_client_id_ = @ + 1]]

\* TcpServer::onNewConnection, for the pending connection whose socket is
\* created at address socket (QTcpServer emits newConnection per connection)
onNewConnection(sv, socket) ==
    LET g == generateClientId(sv)
        info == [id |-> g.id, is_connected |-> TRUE, is_running |-> FALSE]
        sv1 == [g.sv EXCEPT
                   !.socks[socket] = [state |-> "Connected", out |-> <<>>],
                   !.issued = Append(@, g.id)]
        sv2 == [sv1 EXCEPT !.clients_ = MapPut(@, socket, info)]
        sv3 == [sv2 EXCEPT !.client_sockets_ = MapPut(@, info.id, socket)]
        sv4 == [sv3 EXCEPT !.receive_buffers_ = MapPut(@, socket, <<>>)]
        sv5 == sendToClient(sv4, socket, ConnectionConfirm(info.id))
    IN  logMessage(Emit(sv5, "clientConnected", info.id, ""), "connected")

\* onClientDisconnected that leaves the receive buffer behind
onClientDisconnected_leak(sv, socket) ==
    IF socket \notin DOMAIN sv.clients_ THEN sv
    ELSE LET client_id == sv.clients_[socket].id
             sv1 == logMessage(Emit(sv, "clientDisconnected", client_id, ""),
                               "disconnected")
         IN  [sv1 EXCEPT !.client_sockets_ = MapRemove(@, client_id),
                         !.clients_ = MapRemove(@, socket),
                         !.socks[socket].state = "Free"]

\* TcpServer::onClientDisconnected, sender() being socket
onClientDisconnected(sv, socket) ==
    IF socket \notin DOMAIN sv.clients_ THEN sv
    ELSE LET client_id == sv.clients_[socket].id
             sv1 == logMessage(Emit(sv, "clientDisconnected", client_id, ""),
                               "disconnected")
         IN  [sv1 EXCEPT !.client_sockets_ = MapRemove(@, client_id),
                         !.clients_ = MapRemove(@, socket),
                         !.receive_buffers_ = MapRemove(@, socket),
                         !.socks[socket].state = "Free"]   \* deleteLater()

\* an abort that also drops every other connection's registration
socketAbort_wipe(sv, socket) ==
    IF sv.socks[socket].state # "Connected" THEN sv
    ELSE [onClientDisconnected([sv EXCEPT !.socks[socket].state = "Unconnected"],
                               socket)
            EXCEPT !.clients_ = EmptyMap, !.client_sockets_ = EmptyMap,
                   !.receive_buffers_ = EmptyMap]

\* QAbstractSocket::abort() on a collector socket: closes at once and emits
\* disconnected() before it returns
socketAbort(sv, socket) ==
    IF sv.socks[socket].state # "Connected" THEN sv
    ELSE onClientDisconnected([sv EXCEPT !.socks[socket].state = "Unconnected"],
                              socket)

\* TcpServer::onSocketError
serverSocketError(sv, socket) == logMessage(sv, "Socket error")

\* TcpServer::getThresholds when no other context is inside setThresholds:
\* the copy of thresholds_ made under thresholds_mutex_
getThresholds(sv) == sv.thresholds_

\* the rules of TcpServer::checkThresholds: the list warnings it builds
\* (latency and packet_loss are compared as doubles, here in halves)
Warnings(config, data) ==
    LET type == toString(data, "type")
        w1 == IF type = "NetworkMetrics" /\ "latency" \in DOMAIN data
                 /\ toDouble(data, "latency") > 2 * config.max_latency
              THEN <<"High latency">> ELSE <<>>
        w2 == IF type = "NetworkMetrics" /\ "packet_loss" \in DOMAIN data
                 /\ toDouble(data, "packet_loss") > 2 * config.max_packet_loss
              THEN <<"High packet loss">> ELSE <<>>
        w3 == IF type = "DeviceStatus" /\ "cpu_usage" \in DOMAIN data
                 /\ toInt(data, "cpu_usage") > config.max_cpu_usage
              THEN <<"High CPU usage">> ELSE <<>>
        w4 == IF type = "DeviceStatus" /\ "memory_usage" \in DOMAIN data
                 /\ toInt(data, "memory_usage") > config.max_memory_usage
              THEN <<"High memory usage">> ELSE <<>>
    IN  w1 \o w2 \o w3 \o w4

\* the loop of TcpServer::checkThresholds that emits the warnings
EmitWarnings(sv, client_id, warnings) ==
    [sv EXCEPT !.calls = @ \o [i \in 1..Len(warnings) |->
                                 [e |-> "warning", id |-> client_id,
                                  x |-> warnings[i]]]]

\* TcpServer::checkThresholds
checkThresholds(sv, client_id, data) ==
    EmitWarnings(sv, client_id, Warnings(getThresholds(sv), data))

\* processClientData that ends the connection on a frame it cannot parse
processClientData_fatal(sv, client_id, data) ==
    LET doc == fromJson(data)
    IN  IF doc.error \/ ~doc.isObject
        THEN socketAbort(Emit(sv, "logMessage", client_id, "JSON parse error"),
                         sv.client_sockets_[client_id])
        ELSE checkThresholds(Emit(sv, "dataReceived", client_id,
                                  toString(doc.obj, "type")),
                             client_id, doc.obj)

\* TcpServer::processClientData
processClientData(sv, client_id, data) ==
    LET doc == fromJson(data)
    IN  IF doc.error THEN Emit(sv, "logMessage", client_id, "JSON parse error")
        ELSE IF ~doc.isObject
        THEN Emit(sv, "logMessage", client_id, "Invalid JSON: not an object")
        ELSE checkThresholds(Emit(sv, "dataReceived", client_id,
                                  toString(doc.obj, "type")),
                             client_id, doc.obj)

\* receive_buffers_[socket]: QMap::operator[] creates a missing entry
BufferOf(sv, socket) ==
    IF socket \in DOMAIN sv.receive_buffers_ THEN sv.receive_buffers_[socket]
    ELSE <<>>

\* the while loop of TcpServer::onReadyRead
RECURSIVE DrainServer(_, _, _)
DrainServer(sv, socket, client_id) ==
    LET buf == BufferOf(sv, socket)
    IN  IF ~contains(buf, kMessageDelimiter)
        THEN IF socket \in DOMAIN sv.receive_buffers_ THEN sv
             ELSE [sv EXCEPT !.receive_buffers_ = MapPut(@, socket, <<>>)]
        ELSE LET delimiter_pos == indexOf(buf, kMessageDelimiter) - 1
                 message == left(buf, delimiter_pos)
                 sv1 == [sv EXCEPT !.receive_buffers_ =
                            MapPut(@, socket, removeFront(buf, delimiter_pos + 1))]
             IN  DrainServer(IF message # <<>>
                             THEN processClientData(sv1, client_id, message)
                             ELSE sv1,
                             socket, client_id)

\* onReadyRead without its overflow guard
serverReadyRead_nocap(sv, socket, bytes) ==
    IF socket \notin DOMAIN sv.clients_ THEN sv
    ELSE DrainServer([sv EXCEPT !.receive_buffers_ =
                         MapPut(@, socket, BufferOf(sv, socket) \o bytes)],
                     socket, sv.clients_[socket].id)

\* TcpServer::onReadyRead, sender() being socket and readAll() returning bytes
serverReadyRead(sv, socket, bytes) ==
    IF socket \notin DOMAIN sv.clients_ THEN sv
    ELSE LET client_id == sv.clients_[socket].id
             sv1 == [sv EXCEPT !.receive_buffers_ =
                        MapPut(@, socket, BufferOf(sv, socket) \o bytes)]
         IN  IF size(sv1.receive_buffers_[socket]) > kMaxBufferSize
             THEN socketAbort(Emit(sv1, "logMessage", client_id,
                                   "buffer overflow"), socket)
             ELSE DrainServer(sv1, socket, client_id)

\* clients_[socket].is_running = v: QMap::operator[] creates a missing entry
SetRunning(sv, socket, v) ==
    [sv EXCEPT !.clients_ =
        MapPut(@, socket,
               [(IF socket \in DOMAIN sv.clients_ THEN sv.clients_[socket]
                 ELSE DefaultClientInfo) EXCEPT !.is_running = v])]

\* startClient whose unknown-ID branch forgets to return
startClient_noreturn(sv, client_id) ==
    LET sv0 == IF client_id \notin DOMAIN sv.client_sockets_
               THEN Emit(sv, "logMessage", client_id, "not found") ELSE sv
    IN  IF client_id \notin DOMAIN sv.client_sockets_
        THEN logMessage(Emit(sv0, "clientStatusChanged", client_id, "true"),
                        "Started client")
        ELSE LET socket == sv.client_sockets_[client_id]
                 sv1 == SetRunning(sv0, socket, TRUE)
                 sv2 == sendToClient(sv1, socket, Command("start"))
             IN  logMessage(Emit(sv2, "clientStatusChanged", client_id, "true"),
                            "Started client")

\* TcpServer::startClient
startClient(sv, client_id) ==
    IF client_id \notin DOMAIN sv.client_sockets_
    THEN Emit(sv, "logMessage", client_id, "not found")
    ELSE LET socket == sv.client_sockets_[client_id]
             sv1 == SetRunning(sv, socket, TRUE)
             sv2 == sendToClient(sv1, socket, Command("start"))
         IN  logMessage(Emit(sv2, "clientStatusChanged", client_id, "true"),
                        "Started client")

\* stopClient that sends the command but leaves is_running set
stopClient_stale(sv, client_id) ==
    IF client_id \notin DOMAIN sv.client_sockets_
    THEN Emit(sv, "logMessage", client_id, "not found")
    ELSE LET socket == sv.client_sockets_[client_id]
             sv2 == sendToClient(sv, socket, Command("stop"))
         IN  logMessage(Emit(sv2, "clientStatusChanged", client_id, "false"),
                        "Stopped client")

\* TcpServer::stopClient
stopClient(sv, client_id) ==
    IF client_id \notin DOMAIN sv.client_sockets_
    THEN Emit(sv, "logMessage", client_id, "not found")
    ELSE LET socket == sv.client_sockets_[client_id]
             sv1 == SetRunning(sv, socket, FALSE)
             sv2 == sendToClient(sv1, socket, Command("stop"))
         IN  logMessage(Emit(sv2, "clientStatusChanged", client_id, "false"),
                        "Stopped client")

\* the loop of startAllClients without its test of is_running
RECURSIVE StartEach_all(_, _)
StartEach_all(sv, keys) ==
    IF keys = <<>> THEN sv
    ELSE StartEach_all(startClient(sv, sv.clients_[Head(keys)].id), Tail(keys))

\* the loop of TcpServer::startAllClients over the keys still to visit
RECURSIVE StartEach(_, _)
StartEach(sv, keys) ==
    IF keys = <<>> THEN sv
    ELSE LET info == sv.clients_[Head(keys)]
         IN  StartEach(IF info.is_connected /\ ~info.is_running
                       THEN startClient(sv, info.id) ELSE sv,
                       Tail(keys))

\* TcpServer::startAllClients
startAllClients(sv) == StartEach(sv, Ascending(DOMAIN sv.clients_))

\* the loop of TcpServer::stopAllClients over the keys still to visit
RECURSIVE StopEach(_, _)
StopEach(sv, keys) ==
    IF keys = <<>> THEN sv
    ELSE LET info == sv.clients_[Head(keys)]
         IN  StopEach(IF info.is_running THEN stopClient(sv, info.id) ELSE sv,
                      Tail(keys))

\* TcpServer::stopAllClients
stopAllClients(sv) == StopEach(sv, Ascending(DOMAIN sv.clients_))

\* TcpServer::startServer; ok is whether server_->listen() succeeds
startServer(sv, ok) ==
    IF sv.listening THEN logMessage(sv, "Server is already running")
    ELSE IF ~ok THEN logMessage(sv, "Failed to start server")
    ELSE Emit(logMessage([sv EXCEPT !.listening = TRUE], "Server started"),
              "serverStarted", 0, "")

RECURSIVE AbortEach(_, _)
AbortEach(sv, keys) ==
    IF keys = <<>> THEN sv
    ELSE AbortEach(socketAbort(sv, Head(keys)), Tail(keys))

\* the tail of stopServer without its emit of serverStopped
stopServerTail_silent(sv) ==
    LET sv1 == [sv EXCEPT !.clients_ = EmptyMap, !.client_sockets_ = EmptyMap,
                          !.receive_buffers_ = EmptyMap]
    IN  IF sv1.listening
        THEN logMessage([sv1 EXCEPT !.listening = FALSE], "Server stopped")
        ELSE sv1

\* the tail of TcpServer::stopServer, after its loop
stopServerTail(sv) ==
    LET sv1 == [sv EXCEPT !.clients_ = EmptyMap, !.client_sockets_ = EmptyMap,
                          !.receive_buffers_ = EmptyMap]
    IN  IF sv1.listening
        THEN Emit(logMessage([sv1 EXCEPT !.listening = FALSE], "Server stopped"),
                  "serverStopped", 0, "")
        ELSE sv1

\* TcpServer::stopServer.  Its loop holds an iterator into clients_ while
\* abort() runs onClientDisconnected, which removes the element the iterator
\* is at: advancing it is undefined.  The first socket is aborted; after
\* that the process ends (crash), or the loop visits the sockets in more and
\* no other.
stopServer(sv, crash, more) ==
    LET keys == Ascending(DOMAIN sv.clients_)
    IN  IF keys = <<>> THEN stopServerTail(sv)
        ELSE LET sv1 == socketAbort(sv, Head(keys))
             IN  IF crash THEN [sv1 EXCEPT !.crashed = TRUE]
                 ELSE stopServerTail(AbortEach(sv1, Ascending(more)))

\* the sockets the loop of stopServer may still visit after its first abort
Unvisited(sv) ==
    LET keys == DOMAIN sv.clients_
    IN  IF keys = {} THEN {}
        ELSE keys \ {CHOOSE x \in keys : \A y \in keys : x <= y}

(***************************************************************************)
(* The collector's event loop: one action per dispatch.                    *)
(***************************************************************************)
ServerFresh(sv, event) ==
    [sv EXCEPT !.calls = <<[e |-> event, id |-> 0, x |-> ""]>>, !.pair = NoPair]
\* a dispatch of a slot called with a client ID
ServerFreshFor(sv, event, id) ==
    [sv EXCEPT !.calls = <<[e |-> event, id |-> id, x |-> ""]>>, !.pair = NoPair]

ClientIds == 1..MaxAccepts

\* the draws whose latency is over the collector's default limit
BreachingDraws == {d \in Draws : d.net.latency > DefaultThresholds.max_latency}

\* what a peer's bytes arrive as in one read: a telemetry frame, a byte or
\* kMaxBufferSize bytes without a delimiter, a delimiter
NetChunks ==
    {encode(generateNetworkMetrics(d.net)) : d \in BreachingDraws}
    \cup {<<Junk>>, <<Blob(kMaxBufferSize)>>, <<kMessageDelimiter>>}

\* room left on a connection for one more command of the run
Room(sv, socket) == Len(sv.socks[socket].out) < 4 * (1 + MaxCommands)

\* queued call of TcpServer::startServer
StartServer(ok) ==
    /\ ~server.crashed
    /\ server' = startServer(ServerFresh(server, "StartServer"), ok)
    /\ UNCHANGED <<client, rx, asked, tx, sent, thr, link>>

\* queued call of TcpServer::stopServer
StopServer(crash, more) ==
    /\ ~server.crashed
    /\ crash => server.clients_ # EmptyMap
    /\ server' = stopServer(ServerFresh(server, "StopServer"), crash, more)
    /\ UNCHANGED <<client, rx, asked, tx, sent, thr, link>>

\* server_ emits newConnection() for a connection whose socket is at address s
Accept(s) ==
    /\ ~server.crashed
    /\ server.listening
    /\ server.socks[s].state = "Free"
    /\ Len(server.issued) < MaxAccepts
    /\ server' = onNewConnection(ServerFresh(server, "Accept"), s)
    /\ UNCHANGED <<client, rx, asked, tx, sent, thr, link>>

\* the peer of socket s closes or the transport is lost: the socket emits
\* errorOccurred() and then disconnected()
NetClosed(s) ==
    /\ ~server.crashed
    /\ server.socks[s].state = "Connected"
    /\ server' = onClientDisconnected(
                    [serverSocketError(ServerFresh(server, "NetClosed"), s)
                        EXCEPT !.socks[s].state = "Unconnected"], s)
    /\ UNCHANGED <<client, rx, asked, tx, sent, thr, link>>

\* socket s emits readyRead() with bytes to read
NetReadyRead(s, bytes) ==
    /\ ~server.crashed
    /\ server.socks[s].state = "Connected"
    /\ server' = serverReadyRead(ServerFresh(server, "NetReadyRead"), s, bytes)
    /\ Len(BufferOf(server', s)) <= MaxPending
    /\ UNCHANGED <<client, rx, asked, tx, sent, thr, link>>

\* queued call of TcpServer::startClient
StartClient(id) ==
    /\ ~server.crashed
    /\ id \in DOMAIN server.client_sockets_ => Room(server, server.client_sockets_[id])
    /\ LET sv == startClient(ServerFreshFor(server, "StartClient", id), id)
       IN  server' =
             IF id \in DOMAIN server.client_sockets_
             THEN [sv EXCEPT !.pair =
                     [phase |-> "started", id |-> id,
                      sock |-> server.client_sockets_[id],
                      base |-> server.socks[server.client_sockets_[id]].out]]
             ELSE sv
    /\ UNCHANGED <<client, rx, asked, tx, sent, thr, link>>

\* queued call of TcpServer::stopClient
StopClient(id) ==
    /\ ~server.crashed
    /\ id \in DOMAIN server.client_sockets_ => Room(server, server.client_sockets_[id])
    /\ LET sv == stopClient(ServerFreshFor(server, "StopClient", id), id)
       IN  server' =
             IF server.pair.phase = "started" /\ server.pair.id = id
             THEN [sv EXCEPT !.pair = [server.pair EXCEPT !.phase = "stopped"]]
             ELSE sv
    /\ UNCHANGED <<client, rx, asked, tx, sent, thr, link>>

\* queued call of TcpServer::startAllClients
StartAll ==
    /\ ~server.crashed
    /\ \A s \in DOMAIN server.clients_ : Room(server, s)
    /\ server' = startAllClients(ServerFresh(server, "StartAll"))
    /\ UNCHANGED <<client, rx, asked, tx, sent, thr, link>>

\* queued call of TcpServer::stopAllClients
StopAll ==
    /\ ~server.crashed
    /\ \A s \in DOMAIN server.clients_ : Room(server, s)
    /\ server' = stopAllClients(ServerFresh(server, "StopAll"))
    /\ UNCHANGED <<client, rx, asked, tx, sent, thr, link>>

ServerNext ==
    \/ \E ok \in BOOLEAN : StartServer(ok)
    \/ \E crash \in BOOLEAN, more \in SUBSET Unvisited(server) :
          StopServer(crash, more)
    \/ \E s \in Socks : Accept(s)
    \/ \E s \in Socks : NetClosed(s)
    \/ \E s \in Socks, bytes \in NetChunks : NetReadyRead(s, bytes)
    \/ \E id \in ClientIds : StartClient(id)
    \/ \E id \in ClientIds : StopClient(id)
    \/ StartAll
    \/ StopAll

\* no frame sent
NoneSent == [dev |-> <<>>, col |-> <<>>, reads |-> 0]

\* no connection: sock is the collector's socket of the connection (0: none),
\* pending whether it waits in the listen queue, cmd the last command the
\* collector sent on it, got whether the collector has emitted dataReceived
\* for it since it sent a start
NoLink == [sock |-> 0, pending |-> FALSE, cmd |-> "none", got |-> FALSE]

\* both contexts idle, thresholds_mutex_ unlocked
ThreadsInit ==
    [mutex |-> "unlocked",
     ui |-> [pc |-> "idle", config |-> DefaultThresholds, k |-> 0],
     srv |-> [pc |-> "idle", config |-> DefaultThresholds, k |-> 0,
              data |-> [type |-> ""], id |-> 0]]

Init ==
    /\ client = ClientInit
    /\ rx = <<>>
    /\ asked = "none"
    /\ server = ServerInit
    /\ tx = <<>>
    /\ sent = NoneSent
    /\ thr = ThreadsInit
    /\ link = NoLink

SpecDevice == Init /\ [][DeviceNext]_vars

SpecServer == Init /\ [][ServerNext]_vars

(***************************************************************************)
(* Framing runs: one peer is sent frames, each followed by the delimiter,  *)
(* and its socket hands the bytes over in reads of any length.  Here the   *)
(* calls of an object are kept over the whole run, not per dispatch.       *)
(***************************************************************************)
\* what the device can be sent between two delimiters
DevFrames ==
    {toJson(ConnectionConfirm(1)), toJson(Command("start")),
     toJson(Command("stop")), toJson(Command("pause")),
     toJson([type |-> "Bogus"]), <<Junk>>}

\* what the collector can be sent between two delimiters
ColFrames ==
    {toJson(generateNetworkMetrics(d.net)) : d \in Draws}
    \cup {toJson(generateDeviceStatus(d.dev.inc, d.dev)) : d \in BreachingDraws}
    \cup {toJson(generateLogMessage(d.log)) : d \in BreachingDraws}
    \cup {toJson([type |-> "Bogus"]), <<Junk>>, <<ArrayDoc>>}

\* the bytes of frames on the wire: data.append(kMessageDelimiter) for each
RECURSIVE Stream(_)
Stream(frames) ==
    IF frames = <<>> THEN <<>>
    ELSE Head(frames) \o <<kMessageDelimiter>> \o Stream(Tail(frames))

\* a device whose transport has just connected
FramingClient ==
    Fresh(onConnected([connectToServer(ClientInit, "a") EXCEPT !.sock = "Connected"]),
          "Framing")

\* a listening collector that has accepted one connection, on socket 1
FramingServer ==
    ServerFresh(onNewConnection(startServer(ServerInit, TRUE), 1), "Framing")

InitFraming ==
    /\ client = FramingClient
    /\ rx = <<>>
    /\ asked = "connect"
    /\ server = FramingServer
    /\ tx = <<>>
    /\ sent = NoneSent
    /\ thr = ThreadsInit
    /\ link = NoLink

\* the collector's side writes frame f to the device
DeviceFeed(f) ==
    /\ sent.col = <<>>
    /\ Len(sent.dev) < MaxFrames
    /\ rx' = rx \o f \o <<kMessageDelimiter>>
    /\ sent' = [sent EXCEPT !.dev = Append(@, f)]
    /\ UNCHANGED <<client, asked, server, tx, thr, link>>

\* socket_ emits readyRead() with the first n bytes in flight
DeviceRead(n) ==
    /\ n \in 1..Len(rx)
    /\ client' = onReadyRead(client, left(rx, n))
    /\ rx' = removeFront(rx, n)
    /\ sent' = [sent EXCEPT !.reads = @ + 1]
    /\ UNCHANGED <<asked, server, tx, thr, link>>

\* a device writes frame f to the collector's socket 1
CollectorFeed(f) ==
    /\ sent.dev = <<>>
    /\ Len(sent.col) < MaxFrames
    /\ tx' = tx \o f \o <<kMessageDelimiter>>
    /\ sent' = [sent EXCEPT !.col = Append(@, f)]
    /\ UNCHANGED <<client, rx, asked, server, thr, link>>

\* socket 1 emits readyRead() with the first n bytes in flight
CollectorRead(n) ==
    /\ n \in 1..Len(tx)
    /\ server' = serverReadyRead(server, 1, left(tx, n))
    /\ tx' = removeFront(tx, n)
    /\ sent' = [sent EXCEPT !.reads = @ + 1]
    /\ UNCHANGED <<client, rx, asked, thr, link>>

FramingNext ==
    \/ \E f \in DevFrames : DeviceFeed(f)
    \/ \E n \in 1..Len(rx) : DeviceRead(n)
    \/ \E f \in ColFrames : CollectorFeed(f)
    \/ \E n \in 1..Len(tx) : CollectorRead(n)

SpecFraming == InitFraming /\ [][FramingNext]_vars

\* the compact JSON of object o when its members take n bytes
Padded(o, n) == <<LBrace, [c |-> "kv", o |-> o, n |-> n], RBrace>>

\* telemetry frames of which two together are larger than kMaxBufferSize
\* and each alone is not, and frames of a few bytes
BulkFrames ==
    {Padded(generateLogMessage(d.log), kMaxBufferSize \div 2) : d \in Draws}
    \cup {toJson(generateNetworkMetrics(d.net)) : d \in Draws}

\* what a peer can send the device: a ConnectionConfirm, and one byte more
\* than kMaxBufferSize before it sends a delimiter
DevBulkFrames ==
    {toJson(ConnectionConfirm(1)), <<Blob(kMaxBufferSize), Junk>>}

\* framing runs with frames of any size
BulkNext ==
    \/ \E f \in BulkFrames : CollectorFeed(f)
    \/ \E n \in 1..Len(tx) : CollectorRead(n)
    \/ \E f \in DevBulkFrames : DeviceFeed(f)
    \/ \E n \in 1..Len(rx) : DeviceRead(n)

SpecBulk == InitFraming /\ [][BulkNext]_vars

(***************************************************************************)
(* The two contexts that share thresholds_: the window's thread, which     *)
(* calls getThresholds and setThresholds directly, and the collector's     *)
(* thread, where checkThresholds calls getThresholds.  A ThresholdConfig   *)
(* is copied one member at a time; thr.mutex is thresholds_mutex_.         *)
(***************************************************************************)
Fields == <<"max_latency", "max_packet_loss", "max_cpu_usage", "max_memory_usage">>

\* what the operator enters in the four dialogs of onSettingsClicked
SetConfigs ==
    {[max_latency |-> 40, max_packet_loss |-> 6,
      max_cpu_usage |-> 80, max_memory_usage |-> 10],
     [max_latency |-> 120, max_packet_loss |-> 8,
      max_cpu_usage |-> 95, max_memory_usage |-> 95]}

\* the telemetry the collector evaluates: values under, at and over the
\* limits, a member missing, a CPU usage of 95.5, other types
ThresholdMsgs ==
    {[type |-> "NetworkMetrics", latency |-> l, packet_loss |-> p] :
        l \in {50, 100, 150}, p \in {5, 7}}
    \cup {[type |-> "NetworkMetrics", packet_loss |-> 7]}
    \cup {[type |-> "DeviceStatus", cpu_usage |-> c, memory_usage |-> m] :
        c \in {90, 99}, m \in {20, 94}}
    \cup {[type |-> "DeviceStatus", cpu_usage |-> 95, memory_usage |-> 20,
           halves |-> {"cpu_usage"}]}
    \cup {[type |-> "Log", latency |-> 150], [type |-> "Bogus", cpu_usage |-> 99]}

\* QMutexLocker's constructor with no mutex to wait for
tryLock_absent(mutex) == TRUE

\* QMutexLocker's constructor returns once thresholds_mutex_ is free
tryLock(mutex) == mutex = "unlocked"

\* the assignment of member k of a ThresholdConfig
copyField(to, from, k) == [to EXCEPT ![Fields[k]] = from[Fields[k]]]

InitThresholds ==
    /\ client = ClientInit
    /\ rx = <<>>
    /\ asked = "none"
    /\ server = FramingServer
    /\ tx = <<>>
    /\ sent = NoneSent
    /\ thr = ThreadsInit
    /\ link = NoLink

\* ServerWindow::onSettingsClicked up to its call of getThresholds
UiSettings ==
    /\ thr.ui.pc = "idle"
    /\ thr' = [thr EXCEPT !.ui.pc = "get:lock"]
    /\ UNCHANGED <<client, rx, asked, server, tx, sent, link>>

\* the window's thread takes thresholds_mutex_
UiLock ==
    /\ thr.ui.pc \in {"get:lock", "set:lock"}
    /\ tryLock(thr.mutex)
    /\ thr' = [thr EXCEPT !.mutex = "ui", !.ui.k = 0,
                          !.ui.pc = IF @ = "get:lock" THEN "get:copy"
                                    ELSE "set:copy"]
    /\ UNCHANGED <<client, rx, asked, server, tx, sent, link>>

\* return thresholds_ of getThresholds, one member
UiGetCopy ==
    /\ thr.ui.pc = "get:copy"
    /\ thr.ui.k < Len(Fields)
    /\ thr' = [thr EXCEPT !.ui.k = @ + 1,
                          !.ui.config = copyField(@, server.thresholds_,
                                                  thr.ui.k + 1)]
    /\ UNCHANGED <<client, rx, asked, server, tx, sent, link>>

\* thresholds_ = config of setThresholds, one member
UiSetCopy ==
    /\ thr.ui.pc = "set:copy"
    /\ thr.ui.k < Len(Fields)
    /\ thr' = [thr EXCEPT !.ui.k = @ + 1]
    /\ server' = [server EXCEPT !.thresholds_ =
                      copyField(@, thr.ui.config, thr.ui.k + 1)]
    /\ UNCHANGED <<client, rx, asked, tx, sent, link>>

\* the locker of getThresholds or setThresholds goes out of scope
UiUnlock ==
    /\ thr.ui.pc \in {"get:copy", "set:copy"}
    /\ thr.ui.k = Len(Fields)
    /\ thr' = [thr EXCEPT !.mutex = "unlocked",
                          !.ui.pc = IF @ = "get:copy" THEN "dialogs"
                                    ELSE "idle"]
    /\ UNCHANGED <<client, rx, asked, server, tx, sent, link>>

\* the four dialogs: any cancelled returns, else setThresholds(config)
UiDialogs(ok, config) ==
    /\ thr.ui.pc = "dialogs"
    /\ thr' = IF ok THEN [thr EXCEPT !.ui.pc = "set:lock", !.ui.config = config]
              ELSE [thr EXCEPT !.ui.pc = "idle"]
    /\ UNCHANGED <<client, rx, asked, server, tx, sent, link>>

\* processClientData calls checkThresholds(client_id, obj), which calls
\* getThresholds
SrvCheck(client_id, data) ==
    /\ thr.srv.pc = "idle"
    /\ thr' = [thr EXCEPT !.srv.pc = "get:lock", !.srv.id = client_id,
                          !.srv.data = data]
    /\ server' = ServerFreshFor(server, "checkThresholds", client_id)
    /\ UNCHANGED <<client, rx, asked, tx, sent, link>>

\* the collector's thread takes thresholds_mutex_
SrvLock ==
    /\ thr.srv.pc = "get:lock"
    /\ tryLock(thr.mutex)
    /\ thr' = [thr EXCEPT !.mutex = "srv", !.srv.k = 0, !.srv.pc = "get:copy"]
    /\ UNCHANGED <<client, rx, asked, server, tx, sent, link>>

\* return thresholds_ of getThresholds, one member
SrvGetCopy ==
    /\ thr.srv.pc = "get:copy"
    /\ thr.srv.k < Len(Fields)
    /\ thr' = [thr EXCEPT !.srv.k = @ + 1,
                          !.srv.config = copyField(@, server.thresholds_,
                                                   thr.srv.k + 1)]
    /\ UNCHANGED <<client, rx, asked, server, tx, sent, link>>

\* the locker of getThresholds goes out of scope
SrvUnlock ==
    /\ thr.srv.pc = "get:copy"
    /\ thr.srv.k = Len(Fields)
    /\ thr' = [thr EXCEPT !.mutex = "unlocked", !.srv.pc = "evaluate"]
    /\ UNCHANGED <<client, rx, asked, server, tx, sent, link>>

\* the rest of checkThresholds, on its copy config
SrvEvaluate ==
    /\ thr.srv.pc = "evaluate"
    /\ thr' = [thr EXCEPT !.srv.pc = "idle"]
    /\ server' = EmitWarnings(server, thr.srv.id,
                              Warnings(thr.srv.config, thr.srv.data))
    /\ UNCHANGED <<client, rx, asked, tx, sent, link>>

ThresholdsNext ==
    \/ UiSettings
    \/ UiLock
    \/ UiGetCopy
    \/ UiSetCopy
    \/ UiUnlock
    \/ \E ok \in BOOLEAN, config \in SetConfigs : UiDialogs(ok, config)
    \/ \E client_id \in ClientIds, data \in ThresholdMsgs :
          SrvCheck(client_id, data)
    \/ SrvLock
    \/ SrvGetCopy
    \/ SrvUnlock
    \/ SrvEvaluate

SpecThresholds == InitThresholds /\ [][ThresholdsNext]_vars

(***************************************************************************)
(* The device over several rounds of its send loop.  What a message holds  *)
(* has no part in which message is sent next, so one draw stands for all,  *)
(* and one host.                                                           *)
(***************************************************************************)
MaxTicks == 4

\* send_timer_ expires
SendTick(d) ==
    /\ client.send_timer_ > 0
    /\ client.message_counter_ < MaxTicks
    /\ client' = onSendDataTimer([Fresh(client, "SendTimeout") EXCEPT
                                     !.send_timer_ = @ - 1], d)
    /\ UNCHANGED <<rx, asked, server, tx, sent, thr, link>>

RotationNext ==
    \/ UserConnect("a")
    \/ UserDisconnect
    \/ TransportConnected
    \/ TransportError
    \/ RemoteClosed
    \/ \E chunk \in PeerChunks : PeerWrite(chunk)
    \/ \E n \in 1..Len(rx) : SocketReadyRead(n)
    \/ SocketFlush
    \/ ReconnectTimeout
    \/ \E d \in BreachingDraws : SendTick(d)

SpecRotation == Init /\ [][RotationNext]_vars

(***************************************************************************)
(* One device and the collector, joined by TCP.  As in main.cpp the        *)
(* application calls connectToServer once, at startup, and never           *)
(* disconnect(); the collector listens.  What one side writes is in        *)
(* flight (rx, tx) until the other side's socket hands it over; a          *)
(* connection that breaks is noticed by each side in a dispatch of its own.*)
(* What a message holds has no part here, so one draw stands for all.      *)
(***************************************************************************)
InitLink ==
    /\ client = connectToServer(ClientInit, "a")
    /\ rx = <<>>
    /\ asked = "connect"
    /\ server = ServerFresh(startServer(ServerInit, TRUE), "StartServer")
    /\ tx = <<>>
    /\ sent = NoneSent
    /\ thr = ThreadsInit
    /\ link = NoLink

\* the client ID the collector holds for the connection (0: none)
LinkId ==
    IF link.sock \in DOMAIN server.clients_ THEN server.clients_[link.sock].id
    ELSE 0

\* what a dispatch of the collector wrote to socket s
Wrote(sv0, sv1, s) ==
    IF s = 0 THEN <<>>
    ELSE SubSeq(sv1.socks[s].out, Len(sv0.socks[s].out) + 1, Len(sv1.socks[s].out))

\* the handshake completes: socket_ emits connected(), and the connection
\* waits in the collector's listen queue
LinkConnected ==
    /\ client.sock = "Connecting"
    /\ server.listening
    /\ Len(server.issued) < MaxAccepts
    /\ client' = onConnected([Fresh(client, "TransportConnected") EXCEPT
                                 !.sock = "Connected"])
    /\ link' = [NoLink EXCEPT !.pending = TRUE]
    /\ rx' = <<>>
    /\ tx' = <<>>
    /\ UNCHANGED <<asked, server, sent, thr>>

\* server_ emits newConnection() for the waiting connection, its socket at s
LinkAccept(s) ==
    /\ link.pending
    /\ server.socks[s].state = "Free"
    /\ server' = onNewConnection(ServerFresh(server, "Accept"), s)
    /\ link' = [NoLink EXCEPT !.sock = s]
    /\ rx' = rx \o server'.socks[s].out
    /\ UNCHANGED <<client, asked, tx, sent, thr>>

\* the accepted connection breaks; what is in flight is lost
LinkBreak ==
    /\ link.sock # 0
    /\ link' = NoLink
    /\ rx' = <<>>
    /\ tx' = <<>>
    /\ UNCHANGED <<client, asked, server, sent, thr>>

\* the device's socket reports the break: errorOccurred(), disconnected()
LinkLost ==
    /\ client.sock = "Connected"
    /\ link = NoLink
    /\ client' = onDisconnected(onSocketError(
                      [Fresh(client, "RemoteClosed") EXCEPT
                          !.sock = "Unconnected", !.wbuf = <<>>]))
    /\ UNCHANGED <<rx, asked, server, tx, sent, thr, link>>

\* a socket of the collector whose connection broke reports it
LinkClosed(s) ==
    /\ server.socks[s].state = "Connected"
    /\ s # link.sock
    /\ server' = onClientDisconnected(
                    [serverSocketError(ServerFresh(server, "NetClosed"), s)
                        EXCEPT !.socks[s].state = "Unconnected"], s)
    /\ UNCHANGED <<client, rx, asked, tx, sent, thr, link>>

\* reconnect_timer_ expires
LinkReconnect ==
    /\ client.reconnect_timer_ > 0
    /\ client' = onReconnectTimer([Fresh(client, "ReconnectTimeout") EXCEPT
                                      !.reconnect_timer_ = @ - 1])
    /\ link' = IF client'.sock = "Connected" THEN link ELSE NoLink
    /\ rx' = IF client'.sock = "Connected" THEN rx ELSE <<>>
    /\ tx' = IF client'.sock = "Connected" THEN tx ELSE <<>>
    /\ UNCHANGED <<asked, server, sent, thr>>

\* socket_ emits readyRead() with the first n bytes in flight
LinkDeviceRead(n) ==
    /\ client.sock = "Connected"
    /\ n \in 1..Len(rx)
    /\ client' = onReadyRead(Fresh(client, "SocketReadyRead"), left(rx, n))
    /\ rx' = removeFront(rx, n)
    /\ UNCHANGED <<asked, server, tx, sent, thr, link>>

\* send_timer_ expires
LinkTick(d) ==
    /\ client.send_timer_ > 0
    /\ client.message_counter_ < MaxSends
    /\ client' = onSendDataTimer([Fresh(client, "SendTimeout") EXCEPT
                                     !.send_timer_ = @ - 1], d)
    /\ UNCHANGED <<rx, asked, server, tx, sent, thr, link>>

\* the event loop flushes socket_'s write buffer onto the connection
LinkFlush ==
    /\ client.wbuf # <<>>
    /\ client.sock = "Connected"
    /\ client' = [Fresh(client, "SocketFlush") EXCEPT !.wbuf = <<>>]
    /\ tx' = IF link.sock # 0 THEN tx \o client.wbuf ELSE tx
    /\ UNCHANGED <<rx, asked, server, sent, thr, link>>

\* the collector's socket emits readyRead() with what is in flight (how the
\* collector frames reads of other sizes is the matter of the framing runs)
LinkCollectorRead ==
    /\ link.sock # 0
    /\ tx # <<>>
    /\ LET sv == serverReadyRead(ServerFresh(server, "NetReadyRead"),
                                 link.sock, tx)
       IN  /\ server' = sv
           /\ link' = IF \E i \in 1..Len(sv.calls) :
                             /\ sv.calls[i].e = "dataReceived"
                             /\ sv.calls[i].id = LinkId
                      THEN [link EXCEPT !.got = TRUE] ELSE link
    /\ tx' = <<>>
    /\ UNCHANGED <<client, rx, asked, sent, thr>>

\* queued call of TcpServer::startClient for the connection; a run starts
\* a client only while the device has a send left
LinkStart(id) ==
    /\ id = LinkId
    /\ Room(server, link.sock)
    /\ client.message_counter_ < MaxSends
    /\ server' = startClient(ServerFreshFor(server, "StartClient", id), id)
    /\ rx' = rx \o Wrote(server, server', link.sock)
    /\ link' = [link EXCEPT !.cmd = "start", !.got = FALSE]
    /\ UNCHANGED <<client, asked, tx, sent, thr>>

\* queued call of TcpServer::stopClient for the connection
LinkStop(id) ==
    /\ id = LinkId
    /\ Room(server, link.sock)
    /\ server' = stopClient(ServerFreshFor(server, "StopClient", id), id)
    /\ rx' = rx \o Wrote(server, server', link.sock)
    /\ link' = [link EXCEPT !.cmd = "stop"]
    /\ UNCHANGED <<client, asked, tx, sent, thr>>

\* what delivers: reads, flushes and the send timer
LinkDelivery ==
    \/ \E n \in 1..Len(rx) : LinkDeviceRead(n)
    \/ \E d \in BreachingDraws : LinkTick(d)
    \/ LinkFlush
    \/ LinkCollectorRead

LinkNext ==
    \/ LinkConnected
    \/ \E s \in Socks : LinkAccept(s)
    \/ LinkBreak
    \/ LinkLost
    \/ \E s \in Socks : LinkClosed(s)
    \/ LinkReconnect
    \/ \E id \in ClientIds : LinkStart(id)
    \/ \E id \in ClientIds : LinkStop(id)
    \/ LinkDelivery

SpecLink == InitLink /\ [][LinkNext]_vars

\* a device as it connects: at startup, and after a connection was lost
\* while one byte of a frame was in receive_buffer_
Reconnecting ==
    {connectToServer(ClientInit, "a"),
     connectToServer([ClientInit EXCEPT !.state_ = "WaitingConfirmation",
                                        !.receive_buffer_ = <<LBrace>>], "a")}

InitLive ==
    /\ client \in Reconnecting
    /\ rx = <<>>
    /\ asked = "connect"
    /\ server = ServerFresh(startServer(ServerInit, TRUE), "StartServer")
    /\ tx = <<>>
    /\ sent = NoneSent
    /\ thr = ThreadsInit
    /\ link = NoLink

\* the runs in which the connection, once made, stays up
LiveNext ==
    \/ LinkConnected
    \/ \E s \in Socks : LinkAccept(s)
    \/ \E id \in ClientIds : LinkStart(id)
    \/ \E id \in ClientIds : LinkStop(id)
    \/ LinkDelivery

\* a dispatch on the device: a read, a timer expiry or a flush
DeviceDispatch ==
    \/ \E n \in 1..Len(rx) : LinkDeviceRead(n)
    \/ \E d \in BreachingDraws : LinkTick(d)
    \/ LinkFlush

\* a dispatch of the collector's readyRead handler, seen on the wire: the
\* only step of LiveNext that changes tx while the collector holds the
\* connection and tx has bytes is LinkCollectorRead, and it is enabled
\* exactly then
CollectorDispatch == link.sock # 0 /\ tx # <<>> /\ tx' = <<>>

\* the two event loops keep dispatching: a read, a flush or a timer expiry
\* that stays pending is dispatched in time
SpecLive ==
    /\ InitLive
    /\ [][LiveNext]_vars
    /\ WF_vars(DeviceDispatch)
    /\ WF_tx(CollectorDispatch)

(***************************************************************************)
(* Properties of the device.                                               *)
(***************************************************************************)
Ran(c, name) == \E i \in 1..Len(c.calls) : c.calls[i] = name
Event(c) == c.calls[1]

\* C1: along connectToServer() from Disconnected, transport connected,
\* ConnectionConfirm received, Command(start) received, the device is in
\* Connecting, WaitingConfirmation, WaitingStart and Running in turn, with the
\* confirmed ID stored; a following Command(stop) leaves it in Stopped.
C1_HappyPath ==
    /\ client.hp = 1 => client.state_ = "Connecting"
    /\ client.hp = 2 => client.state_ = "WaitingConfirmation"
    /\ client.hp = 3 => client.state_ = "WaitingStart"
                        /\ client.client_id_ = client.hpId
    /\ client.hp = 4 => client.state_ = "Running"
                        /\ client.client_id_ = client.hpId
    /\ client.hp = 5 => client.state_ = "Stopped"

C1_Witness == client.hp = 5 /\ client.state_ = "Stopped"

C3_OneReconnectTimer ==
    /\ client.reconnect_timer_ <= 1
    /\ Ran(client, "onDisconnected:live") => client.reconnect_timer_ = 1

C3_Witness ==
    /\ Event(client) = "RemoteClosed"
    /\ Ran(client, "onSocketError")
    /\ Ran(client, "onDisconnected:live")
    /\ client.reconnect_timer_ = 1

\* C4 as stated: when disconnect() has returned the reconnect timer is not
\* armed, and no transport connect is initiated before the next
\* connectToServer() call.
C4_Original ==
    /\ Event(client) = "UserDisconnect" => client.reconnect_timer_ = 0
    /\ asked = "disconnect" => ~(client.sock = "Connecting" /\ ~client.pendingClose)

\* C5: while the device is asked to connect and has no established
\* transport, a connect attempt to the last host is in progress or the
\* reconnect timer is armed, and an expiry of the timer starts an attempt to
\* the last host; nothing counts the attempts.
C5_Retrying ==
    asked = "connect" =>
        /\ client.state_ # "Disconnected"
        /\ client.sock # "Connected" =>
              \/ /\ client.sock = "Connecting"
                 /\ client.peer = client.host_
                 /\ ~client.pendingClose
              \/ /\ client.sock = "Unconnected"
                 /\ client.reconnect_timer_ >= 1

C5_RetryStep ==
    (asked = "connect" /\ Event(client') = "ReconnectTimeout") =>
        /\ client'.sock = "Connecting"
        /\ client'.peer = client.host_
        /\ client'.host_ = client.host_

C5_NeverGivesUp == [](C5_Retrying) /\ [][C5_RetryStep]_vars

C5_Witness ==
    /\ asked = "connect"
    /\ Event(client) = "TransportError"
    /\ client.sock = "Unconnected"
    /\ client.reconnect_timer_ = 1
    /\ client.host_ = "b"

\* C6 as stated: whenever the device's transport is established the
\* reconnect timer is not armed.
C6_Original == client.sock = "Connected" => client.reconnect_timer_ = 0

(***************************************************************************)
(* Properties of the collector.                                            *)
(***************************************************************************)
SEvent(sv) == sv.calls[1].e
SRan(sv, e) == \E i \in 1..Len(sv.calls) : sv.calls[i].e = e
Registered(sv) == DOMAIN sv.clients_

\* C7: the IDs issued, in accept order, start at 1 and increase strictly, so
\* none is issued twice, whatever was disconnected or stopped in between.
C7_IdsIncrease ==
    /\ server.issued # <<>> => server.issued[1] = 1
    /\ \A i, j \in 1..Len(server.issued) :
          i < j => server.issued[i] < server.issued[j]

\* an ID issued after the holder of the earlier one is gone and the server
\* was stopped and started again
C7_Witness ==
    /\ SEvent(server) = "Accept"
    /\ Len(server.issued) = 2
    /\ DOMAIN server.client_sockets_ = {2}

\* C8: clients_, client_sockets_ and receive_buffers_ cover the same
\* sockets, and client_sockets_ is the inverse of socket -> clients_[socket].id.
C8_RegistryConsistent ==
    /\ DOMAIN server.receive_buffers_ = DOMAIN server.clients_
    /\ {server.client_sockets_[i] : i \in DOMAIN server.client_sockets_}
          = DOMAIN server.clients_
    /\ \A s \in DOMAIN server.clients_ :
          /\ server.clients_[s].id \in DOMAIN server.client_sockets_
          /\ server.client_sockets_[server.clients_[s].id] = s
    /\ \A i \in DOMAIN server.client_sockets_ :
          /\ server.client_sockets_[i] \in DOMAIN server.clients_
          /\ server.clients_[server.client_sockets_[i]].id = i

\* an overflow has removed one connection while another stays registered
C8_Witness ==
    /\ SEvent(server) = "NetReadyRead"
    /\ SRan(server, "clientDisconnected")
    /\ Cardinality(DOMAIN server.clients_) = 1

\* C9: what has been written to a registered connection begins with the
\* ConnectionConfirm carrying its ID; the accept itself creates the record
\* connected and not running with an empty buffer, writes that message and
\* nothing else, and processes no frame.
C9_ConfirmFirst ==
    /\ \A s \in DOMAIN server.clients_ :
          /\ Len(server.socks[s].out) >= 4
          /\ SubSeq(server.socks[s].out, 1, 4)
                = encode(ConnectionConfirm(server.clients_[s].id))
    /\ SEvent(server) = "Accept" =>
          LET id == server.issued[Len(server.issued)]
              s == server.client_sockets_[id]
          IN  /\ server.clients_[s]
                    = [id |-> id, is_connected |-> TRUE, is_running |-> FALSE]
              /\ server.receive_buffers_[s] = <<>>
              /\ server.socks[s].out = encode(ConnectionConfirm(id))
              /\ ~SRan(server, "dataReceived")

\* a frame of a connection is processed after a command was written to it
C9_Witness ==
    /\ SEvent(server) = "NetReadyRead"
    /\ \E i \in 1..Len(server.calls) :
          /\ server.calls[i].e = "dataReceived"
          /\ server.calls[i].id \in DOMAIN server.client_sockets_
          /\ Len(server.socks[server.client_sockets_[server.calls[i].id]].out) = 8

\* C10: startClient(id) directly followed by stopClient(id), id registered,
\* leaves is_running false and has appended to the connection exactly one
\* Command(start) and then one Command(stop).
C10_StartThenStop ==
    server.pair.phase = "stopped" =>
        /\ server.pair.id \in DOMAIN server.client_sockets_
        /\ server.client_sockets_[server.pair.id] = server.pair.sock
        /\ ~server.clients_[server.pair.sock].is_running
        /\ server.socks[server.pair.sock].out
              = server.pair.base \o encode(Command("start"))
                                 \o encode(Command("stop"))

C10_Witness ==
    /\ server.pair.phase = "stopped"
    /\ SEvent(server) = "StopClient"

\* the registry and the sockets, which a no-op leaves alone
Registry(sv) ==
    <<sv.clients_, sv.client_sockets_, sv.receive_buffers_, sv.socks,
      sv.listening, sv.next_client_id_, sv.thresholds_>>

\* C11: startClient(id) or stopClient(id) with an ID that is not registered
\* emits a log event and nothing else: the registry and every connection are
\* as before, no clientStatusChanged is emitted, nothing is written, and the
\* collector has not ended.
C11_UnknownIdNoOp ==
    [][(/\ SEvent(server') \in {"StartClient", "StopClient"}
        /\ server'.calls[1].id \notin DOMAIN server.client_sockets_) =>
            /\ Registry(server') = Registry(server)
            /\ ~server'.crashed
            /\ Len(server'.calls) = 2
            /\ server'.calls[2] = [e |-> "logMessage", id |-> server'.calls[1].id,
                                   x |-> "not found"]
      ]_vars

\* a stop for an ID that was issued and whose connection is gone, another
\* connection being registered
C11_Witness ==
    /\ SEvent(server) = "StopClient"
    /\ SRan(server, "logMessage")
    /\ server.calls[2].x = "not found"
    /\ \E i \in 1..Len(server.issued) : server.issued[i] = server.calls[2].id
    /\ server.clients_ # EmptyMap

\* what a connection has been written beyond what it had been
Written(sv0, sv1, s) ==
    SubSeq(sv1.socks[s].out, Len(sv0.socks[s].out) + 1, Len(sv1.socks[s].out))

\* C12: startAll writes one Command(start) to each connection that was
\* connected and not running when it was called and nothing to any other,
\* and leaves those records running; stopAll writes one Command(stop) to
\* each connection that was running and leaves them not running; the
\* registry holds the same connections afterwards.
C12_AllSnapshot ==
    [][/\ SEvent(server') = "StartAll" =>
            /\ DOMAIN server'.clients_ = DOMAIN server.clients_
            /\ \A s \in DOMAIN server.clients_ :
                  IF server.clients_[s].is_connected /\ ~server.clients_[s].is_running
                  THEN /\ Written(server, server', s) = encode(Command("start"))
                       /\ server'.clients_[s]
                             = [server.clients_[s] EXCEPT !.is_running = TRUE]
                  ELSE /\ Written(server, server', s) = <<>>
                       /\ server'.clients_[s] = server.clients_[s]
            /\ \A s \in Socks \ DOMAIN server.clients_ :
                  server'.socks[s] = server.socks[s]
       /\ SEvent(server') = "StopAll" =>
            /\ DOMAIN server'.clients_ = DOMAIN server.clients_
            /\ \A s \in DOMAIN server.clients_ :
                  IF server.clients_[s].is_running
                  THEN /\ Written(server, server', s) = encode(Command("stop"))
                       /\ server'.clients_[s]
                             = [server.clients_[s] EXCEPT !.is_running = FALSE]
                  ELSE /\ Written(server, server', s) = <<>>
                       /\ server'.clients_[s] = server.clients_[s]
            /\ \A s \in Socks \ DOMAIN server.clients_ :
                  server'.socks[s] = server.socks[s]
      ]_vars

\* a startAll over two connections of which one was running already
C12_Witness ==
    /\ SEvent(server) = "StartAll"
    /\ Cardinality(DOMAIN server.clients_) = 2
    /\ Cardinality({i \in 1..Len(server.calls) : server.calls[i].e = "write"}) = 1
    /\ \A s \in DOMAIN server.clients_ : server.clients_[s].is_running

\* the last dispatch reported an overflow
Overflowed(sv) ==
    /\ SEvent(sv) = "NetReadyRead"
    /\ Len(sv.calls) >= 2
    /\ sv.calls[2].e = "logMessage"
    /\ sv.calls[2].x = "buffer overflow"

C14_OverflowLocal ==
    [][Overflowed(server') =>
          LET id == server'.calls[2].id
              s == server.client_sockets_[id]
          IN  /\ id \in DOMAIN server.client_sockets_
              /\ DOMAIN server'.clients_ = DOMAIN server.clients_ \ {s}
              /\ DOMAIN server'.receive_buffers_ = DOMAIN server.receive_buffers_ \ {s}
              /\ DOMAIN server'.client_sockets_ = DOMAIN server.client_sockets_ \ {id}
              /\ \A t \in DOMAIN server.clients_ \ {s} :
                    /\ server'.clients_[t] = server.clients_[t]
                    /\ server'.receive_buffers_[t] = server.receive_buffers_[t]
                    /\ server'.client_sockets_[server.clients_[t].id] = t
                    /\ server'.socks[t] = server.socks[t]
              /\ server'.listening = server.listening
              /\ ~server'.crashed
      ]_vars

\* an overflow while another connection is running with a partial frame held
C14_Witness ==
    /\ Overflowed(server)
    /\ server.listening
    /\ \E t \in DOMAIN server.clients_ :
          /\ server.clients_[t].is_running
          /\ server.receive_buffers_[t] # <<>>

(***************************************************************************)
(* Properties of the framing.                                              *)
(***************************************************************************)
\* the bytes of frames that have been read: all but those in flight
Delivered(frames, inflight) ==
    SubSeq(Stream(frames), 1, Len(Stream(frames)) - Len(inflight))
\* the frames bytes holds in full, and what follows the last of them
Complete(bytes) ==
    Cardinality({i \in 1..Len(bytes) : bytes[i] = kMessageDelimiter})
Partial(bytes) ==
    LET ends == {i \in 1..Len(bytes) : bytes[i] = kMessageDelimiter}
        last == IF ends = {} THEN 0 ELSE CHOOSE i \in ends : \A j \in ends : j <= i
    IN  SubSeq(bytes, last + 1, Len(bytes))
\* a frame that is a JSON object
IsObject(f) == ~fromJson(f).error /\ fromJson(f).isObject
\* what the device did with each frame it processed, in order
DevProcessed(c) == SelectSeq(Tail(c.calls), LAMBDA x : x # "onReadyRead")
\* what the collector did with each frame it processed, in order
ColProcessed(sv) ==
    SelectSeq(Tail(sv.calls), LAMBDA r : r.e \in {"dataReceived", "logMessage"})
\* the log lines of the device
DevLogs ==
    {"log:JSON parse error", "log:Connection confirmed",
     "log:Received START command", "log:Received STOP command",
     "log:Unknown message type"}
\* how the processing of message o shows on the device
DevSeen(o) ==
    CASE toString(o, "type") = "ConnectionConfirm" -> "log:Connection confirmed"
      [] toString(o, "type") = "Command" /\ toString(o, "command") = "start" ->
            "log:Received START command"
      [] toString(o, "type") = "Command" /\ toString(o, "command") = "stop" ->
            "log:Received STOP command"
      [] toString(o, "type") = "Command" -> "command:ignored"
      [] OTHER -> "log:Unknown message type"

\* C15 as stated: when every frame sent is a JSON object, the receiver has
\* processed the frames it has read in full, each once and in the order
\* sent, and its receive buffer holds what it has read after the last
\* delimiter; on the device and on the collector, however the bytes are
\* split into reads.
C15_Original ==
    /\ (\A i \in 1..Len(sent.dev) : IsObject(sent.dev[i])) =>
          LET d == Delivered(sent.dev, rx)
          IN  /\ DevProcessed(client)
                    = [i \in 1..Complete(d) |-> DevSeen(sent.dev[i][2].o)]
              /\ client.receive_buffer_ = Partial(d)
    /\ (\A i \in 1..Len(sent.col) : IsObject(sent.col[i])) =>
          LET d == Delivered(sent.col, tx)
          IN  /\ ColProcessed(server)
                    = [i \in 1..Complete(d) |->
                          [e |-> "dataReceived", id |-> 1,
                           x |-> toString(sent.col[i][2].o, "type")]]
              /\ BufferOf(server, 1) = Partial(d)

\* C16: a frame of the collector that is no JSON, or JSON and no object,
\* gives one log event and no dataReceived and no warning; the connection
\* stays registered as it was, and the frames after it, also in the same
\* read, are processed.
C16_MalformedDropped ==
    (\E i \in 1..Len(sent.col) : ~IsObject(sent.col[i])) =>
        LET d == Delivered(sent.col, tx)
            done == ColProcessed(server)
        IN  /\ Len(done) = Complete(d)
            /\ \A i \in 1..Complete(d) :
                  IF IsObject(sent.col[i])
                  THEN done[i] = [e |-> "dataReceived", id |-> 1,
                                  x |-> toString(sent.col[i][2].o, "type")]
                  ELSE done[i] = [e |-> "logMessage", id |-> 1,
                                  x |-> IF fromJson(sent.col[i]).error
                                        THEN "JSON parse error"
                                        ELSE "Invalid JSON: not an object"]
            /\ (\A i \in 1..Complete(d) : ~IsObject(sent.col[i])) =>
                  ~SRan(server, "warning")
            /\ server.clients_ = FramingServer.clients_
            /\ server.client_sockets_ = FramingServer.client_sockets_
            /\ DOMAIN server.receive_buffers_ = {1}
            /\ server.socks[1].state = "Connected"
            /\ server.listening

\* one read that holds a frame that is no JSON and then a telemetry frame
C16_Witness ==
    /\ Len(sent.col) = 2
    /\ sent.col[1] = <<Junk>>
    /\ tx = <<>>
    /\ sent.reads = 1
    /\ Len(ColProcessed(server)) = 2
    /\ ColProcessed(server)[2].e = "dataReceived"
    /\ SRan(server, "warning")

\* the frames sent to the device without the unknown commands, as read in one go
WithoutPause(frames) ==
    SelectSeq(frames, LAMBDA f : f # toJson(Command("pause")))

\* C17 as stated: a Command that is neither start nor stop leaves the device
\* state and the send timer as they would be without it, and the device
\* emits a log event for it.
C17_Original ==
    rx = <<>> =>
        LET ref == onReadyRead(FramingClient, Stream(WithoutPause(sent.dev)))
        IN  /\ client.state_ = ref.state_
            /\ client.send_timer_ = ref.send_timer_
            /\ \A i \in 1..Len(sent.dev) :
                  sent.dev[i] = toJson(Command("pause")) =>
                      DevProcessed(client)[i] \in DevLogs

\* C18 as stated: a JSON object of an unrecognized type gives a log event
\* and nothing else: on the device no change of state, on the collector no
\* dataReceived and no warning.
C18_Original ==
    /\ rx = <<>> =>
          \A i \in 1..Len(sent.dev) :
              sent.dev[i] = toJson([type |-> "Bogus"]) =>
                  DevProcessed(client)[i] = "log:Unknown message type"
    /\ tx = <<>> =>
          \A i \in 1..Len(sent.col) :
              sent.col[i] = toJson([type |-> "Bogus"]) =>
                  /\ ColProcessed(server)[i].e = "logMessage"
                  /\ ~\E j \in 1..Len(server.calls) :
                        /\ server.calls[j].e = "dataReceived"
                        /\ server.calls[j].x = "Bogus"

\* the number of the members keys of message data whose value is over its
\* limit in config (values and limits in halves)
Over(config, data, keys) ==
    Cardinality({k \in keys \cap DOMAIN data :
                    toDouble(data, k) > 2 * config["max_" \o k]})

\* the number of warnings the claim gives message data under config
Expected(config, data) ==
    IF data.type = "NetworkMetrics"
    THEN Over(config, data, {"latency", "packet_loss"})
    ELSE IF data.type = "DeviceStatus"
    THEN Over(config, data, {"cpu_usage", "memory_usage"})
    ELSE 0

\* the warnings of the evaluation that has just ended
Emitted(sv) == SelectSeq(sv.calls, LAMBDA r : r.e = "warning")
Evaluated == SEvent(server) = "checkThresholds" /\ thr.srv.pc = "idle"

Snapshots == {DefaultThresholds} \cup SetConfigs

\* C20: whatever the interleaving of the two threads, a config returned by
\* getThresholds, to the window or to checkThresholds, is the default or the
\* argument of one setThresholds, and the warnings of one evaluation are
\* those of one such config.
C20_AtomicSnapshot ==
    /\ thr.ui.pc = "dialogs" => thr.ui.config \in Snapshots
    /\ thr.srv.pc = "evaluate" => thr.srv.config \in Snapshots
    /\ Evaluated =>
          \E config \in Snapshots :
              Emitted(server) =
                  [i \in 1..Len(Warnings(config, thr.srv.data)) |->
                      [e |-> "warning", id |-> thr.srv.id,
                       x |-> Warnings(config, thr.srv.data)[i]]]

\* a read on the collector's thread has returned what one setThresholds
\* stored while the window's thread waits to store another config
C20_Witness ==
    /\ thr.srv.pc = "evaluate"
    /\ thr.srv.config \in SetConfigs
    /\ thr.ui.pc = "set:lock"
    /\ thr.ui.config # thr.srv.config

(***************************************************************************)
(* Properties of the send loop and of the device's commands.               *)
(***************************************************************************)
\* the types of telemetry in the order of the rotation
Rotation == <<"NetworkMetrics", "DeviceStatus", "Log">>

\* C21: a send tick handled in Running writes exactly one telemetry message
\* and leaves the send timer armed, and the k-th message written since the
\* device was made, k from 0, is of type NetworkMetrics, DeviceStatus or Log
\* as k mod 3 is 0, 1 or 2, whatever stops, starts and reconnects came between.
C21_Rotation ==
    /\ Len(client.emitted) = client.message_counter_
    /\ \A k \in 0..(Len(client.emitted) - 1) :
          client.emitted[k + 1] = Rotation[(k % 3) + 1]
    /\ (Event(client) = "SendTimeout" /\ Ran(client, "onSendDataTimer")) =>
          /\ client.send_timer_ = 1
          /\ client.wbuf # <<>>

\* the fourth message written is a NetworkMetrics again, and the timer of
\* the tick that wrote it is armed for the next
C21_Witness ==
    /\ Event(client) = "SendTimeout"
    /\ Len(client.emitted) = 4
    /\ client.emitted[4] = "NetworkMetrics"
    /\ client.send_timer_ = 1

\* C22 as stated: whenever the device is not in Running its send timer is
\* not armed, and a tick handled outside Running writes nothing.
C22_Original ==
    /\ client.state_ # "Running" => client.send_timer_ = 0
    /\ (Event(client) = "SendTimeout" /\ client.state_ # "Running") =>
          Ran(client, "onSendDataTimer:idle")

\* the state the transition table gives a device in state s after the
\* frames: ConnectionConfirm counts in WaitingConfirmation only, start in
\* WaitingStart only, stop in Running only
RECURSIVE Tabled(_, _)
Tabled(s, frames) ==
    IF frames = <<>> THEN s
    ELSE LET o == fromJson(Head(frames)).obj
             type == toString(o, "type")
             command == toString(o, "command")
             t == CASE type = "ConnectionConfirm" /\ s = "WaitingConfirmation"
                          -> "WaitingStart"
                    [] type = "Command" /\ command = "start" /\ s = "WaitingStart"
                          -> "Running"
                    [] type = "Command" /\ command = "stop" /\ s = "Running"
                          -> "Stopped"
                    [] OTHER -> s
         IN  Tabled(t, Tail(frames))

\* C26 as stated: the device that has read the frames sent to it is in the
\* state the table gives, where start counts in WaitingStart only, stop in
\* Running only and ConnectionConfirm in WaitingConfirmation only, and its
\* send loop runs only if that state is Running.
C26_Original ==
    rx = <<>> =>
        /\ client.state_ = Tabled(FramingClient.state_, sent.dev)
        /\ client.send_timer_ > 0 =>
              Tabled(FramingClient.state_, sent.dev) = "Running"

(***************************************************************************)
(* Properties of the collector's handlers as a whole.                      *)
(***************************************************************************)
\* C23 as stated: the disconnect handler removes registry entries only in a
\* dispatch of its own, never inside a run of stopServer, startAllClients,
\* stopAllClients, startClient, stopClient, onNewConnection or onReadyRead.
C23_Original ==
    SEvent(server) \in {"StartServer", "StopServer", "Accept", "NetReadyRead",
                        "StartClient", "StopClient", "StartAll", "StopAll"}
        => ~SRan(server, "clientDisconnected")

\* C24 as stated: while no frame sent to the collector is longer than
\* kMaxBufferSize, so that the bytes after the last delimiter never exceed
\* it, no read ends in an abort, whatever the size of what it delivers, and
\* every frame read in full is processed.
C24_Original ==
    (\A i \in 1..Len(sent.col) : size(sent.col[i]) <= kMaxBufferSize) =>
        /\ ~SRan(server, "clientDisconnected")
        /\ server.socks[1].state = "Connected"
        /\ 1 \in DOMAIN server.client_sockets_
        /\ Len(ColProcessed(server)) = Complete(Delivered(sent.col, tx))

\* C25 as stated: the device's receive buffer never holds more than
\* kMaxBufferSize bytes; a peer that sends more than that without a
\* delimiter gets a fatal framing error, the connection is given up.
C25_Original ==
    /\ size(client.receive_buffer_) <= kMaxBufferSize
    /\ (\E i \in 1..Len(sent.dev) : size(sent.dev[i]) > kMaxBufferSize) =>
          (rx = <<>> => client.sock # "Connected")

\* C27 as stated: when the transport of the device connects, the receive
\* buffer is empty: nothing read on an earlier connection comes before the
\* first frame of the new one.
C27_Original ==
    Event(client) = "TransportConnected" => client.receive_buffer_ = <<>>

(***************************************************************************)
(* Properties of the device and the collector together.                    *)
(***************************************************************************)
\* C28 as stated: a device connected to the collector and in WaitingStart,
\* Running or Stopped holds the client ID of the collector's record of the
\* connection, and a device whose socket is not connected holds -1.
C28_Original ==
    /\ (link.sock # 0 /\ client.sock = "Connected"
          /\ client.state_ \in {"WaitingStart", "Running", "Stopped"}) =>
          client.client_id_ = LinkId
    /\ client.sock # "Connected" => client.client_id_ = -1

\* C29: while the connection stays up and the last command sent on it is a
\* start, the device comes to be in Running and the collector comes to emit
\* dataReceived with the connection's ID; while it stays up and the last
\* command is a stop, the device comes to be in Stopped; and a device that
\* stays in Stopped writes no telemetry.
C29_Progress ==
    /\ (link.cmd = "start") ~> (client.state_ = "Running" \/ link.cmd # "start")
    /\ (link.cmd = "start") ~> (link.got \/ link.cmd # "start")
    /\ (link.cmd = "stop") ~> (client.state_ = "Stopped" \/ link.cmd # "stop")
    /\ [][(client.state_ = "Stopped" /\ client'.state_ = "Stopped") =>
              (client'.emitted = client.emitted /\ client'.send_timer_ = 0)]_vars

\* started, the device is in Running and its telemetry has reached the
\* collector, which emitted dataReceived with the ID of the connection
C29_Witness ==
    /\ link.cmd = "start"
    /\ link.got
    /\ client.state_ = "Running"
    /\ SEvent(server) = "NetReadyRead"
    /\ SRan(server, "dataReceived")

(***************************************************************************)
(* Properties of the collector's signals as its window consumes them.      *)
(***************************************************************************)
\* C30: after every dispatch of the collector, the window, having run its
\* slots for the signals emitted so far, holds exactly the IDs of the
\* registry, each with the registry's running flag; and clientDisconnected
\* was emitted at most once for an ID, and only for an ID that
\* clientConnected was emitted for before.
C30_Mirror ==
    /\ DOMAIN server.window =
          {server.clients_[s].id : s \in DOMAIN server.clients_}
    /\ \A s \in DOMAIN server.clients_ :
          server.window[server.clients_[s].id].is_running =
              server.clients_[s].is_running
    /\ ~server.twice

\* stopServer has dropped a connection that it had started and did not
\* abort: no clientDisconnected was emitted for it, and the window is
\* empty as the registry is
C30_Witness ==
    /\ SEvent(server) = "StopServer"
    /\ ~server.crashed
    /\ SRan(server, "serverStopped")
    /\ \E i \in 1..Len(server.issued) : server.issued[i] \notin server.closed
    /\ server.closed # {}
    /\ server.window = EmptyMap
    /\ server.clients_ = EmptyMap

====
